---------------------------- MODULE Spec2Model ----------------------------
(***************************************************************************)
(* State-machine model of the covid dashboard's update scheduler:          *)
(*   covid_data_handler.py  (the "covid" domain),                          *)
(*   covid_news_handling.py (the "news" domain).                           *)
(*                                                                         *)
(* Time is counted in seconds.  A datetime and a time.time() reading are   *)
(* both the number of seconds since midnight of day 0.  Strings are        *)
(* sequences of one-character strings, so that the regular expressions,    *)
(* str.isdigit, str.split and int() are computed character by character.   *)
(***************************************************************************)
EXTENDS Integers, Sequences, FiniteSets, TLC

(***************************************************************************)
(* Calendar arithmetic of datetime / timedelta.                            *)
(***************************************************************************)
SecondsPerMinute == 60
MinutesPerHour == 60
HoursPerDay == 24
OneDay == HoursPerDay * MinutesPerHour * SecondsPerMinute

\* the bounded environment of the model
ClockStep == SecondsPerMinute \div 2     \* seconds the clock moves in one Tick
MaxSteps == 1          \* Ticks taken within one day of the run
MaxDays == 1           \* whole days that may pass without any request

\* the clock when the modules are imported: day 1, 12:33:30
StartTime == OneDay + (12 * MinutesPerHour + 33) * SecondsPerMinute + 30

Domains == {"covid", "news"}

\* datetime.replace(hour=hrs, minute=mins, second=0, microsecond=0)
Replace(t, hrs, mins) ==
    (t - (t % OneDay)) + (hrs * MinutesPerHour + mins) * SecondsPerMinute

Hour(t) == (t % OneDay) \div (MinutesPerHour * SecondsPerMinute)
Minute(t) == ((t % OneDay) \div SecondsPerMinute) % MinutesPerHour
Second(t) == t % SecondsPerMinute

Abs(n) == IF n < 0 THEN -n ELSE n

(***************************************************************************)
(* Strings, character by character.                                        *)
(***************************************************************************)
DigitChars == <<"0", "1", "2", "3", "4", "5", "6", "7", "8", "9">>

IsDigit(c) == \E i \in 1..Len(DigitChars) : DigitChars[i] = c

DigitVal(c) == (CHOOSE i \in 1..Len(DigitChars) : DigitChars[i] = c) - 1

\* str.isdigit(): non-empty and every character a digit
IsDigitStr(str) == Len(str) > 0 /\ \A i \in 1..Len(str) : IsDigit(str[i])

\* int(str) of a string of digits
RECURSIVE IntOf(_)
IntOf(str) ==
    IF Len(str) = 0 THEN 0
    ELSE 10 * IntOf(SubSeq(str, 1, Len(str) - 1)) + DigitVal(str[Len(str)])

\* int(str) raises ValueError unless str is a string of digits
IntRaises(str) == ~IsDigitStr(str)

\* position of the first ":" of str, 0 when there is none
ColonAt(str) ==
    IF \E i \in 1..Len(str) : str[i] = ":"
    THEN CHOOSE i \in 1..Len(str) :
             str[i] = ":" /\ \A j \in 1..(i - 1) : str[j] # ":"
    ELSE 0

\* re.match("^([0-1]?[0-9]|2[0-3]):[0-5][0-9]$", str) of covid_data_handler
CovidTimeMatch(str) ==
    LET c == ColonAt(str)
        hh == SubSeq(str, 1, c - 1)
        mm == SubSeq(str, c + 1, Len(str))
    IN  /\ c \in {2, 3}
        /\ \/ Len(hh) = 1 /\ IsDigit(hh[1])
           \/ Len(hh) = 2 /\ hh[1] \in {"0", "1"} /\ IsDigit(hh[2])
           \/ Len(hh) = 2 /\ hh[1] = "2" /\ hh[2] \in {"0", "1", "2", "3"}
        /\ Len(mm) = 2
        /\ mm[1] \in {"0", "1", "2", "3", "4", "5"}
        /\ IsDigit(mm[2])

\* re.match("[0-9]{2}:[0-9]{}2", str) of covid_news_handling: "{}" is no
\* quantifier, so the pattern is two digits, ":", a digit and the three
\* literal characters "{", "}", "2", matched at the start of str
NewsTimeMatch(str) ==
    /\ Len(str) >= 7
    /\ IsDigit(str[1]) /\ IsDigit(str[2]) /\ str[3] = ":"
    /\ IsDigit(str[4]) /\ str[5] = "{" /\ str[6] = "}" /\ str[7] = "2"

\* re.match("[0-9]+", str) of covid_news_handling: a digit at the start
NewsDigitMatch(str) == Len(str) >= 1 /\ IsDigit(str[1])

TimeMatch(d, str) == IF d = "covid" THEN CovidTimeMatch(str) ELSE NewsTimeMatch(str)

DigitMatch(d, str) == IF d = "covid" THEN IsDigitStr(str) ELSE NewsDigitMatch(str)


(***************************************************************************)
(* The interval specs a caller may pass as update_interval: a str, an int  *)
(* or a datetime.  A value carries its Python type in "type"; the unused   *)
(* one of "text" and "num" is left at its neutral value.                   *)
(***************************************************************************)
StrSpec(str) == [type |-> "str", text |-> str, num |-> 0]
IntSpec(n) == [type |-> "int", text |-> <<>>, num |-> n]
DatetimeSpec(t) == [type |-> "datetime", text |-> <<>>, num |-> t]

\* the name covid_API_request and news_API_request schedule the retry under
RetryName == "API Retry"
\* schedule_covid_updates(30, "API Retry") / schedule_news_updates(30, ...)
RetryDelay == 30

(***************************************************************************)
(* The clock.  A call reads the clock several times (datetime.now() and    *)
(* time.time()); the reads of one call are numbered 1..ClockReads in the   *)
(* order of the code, and k says before which read the clock moved on by   *)
(* one ClockStep (k = 0: all reads of the call see the same time).         *)
(***************************************************************************)
ClockReads == 5

\* the choices of k the environment makes: no move, or a move just before
\* the read for the delay
ClockOracles == {0, 4}

Clk(now, k, i) == IF k # 0 /\ k <= i THEN now + ClockStep ELSE now

(***************************************************************************)
(* time_to_update_interval(update_interval): the same code in both modules.*)
(* Reads 2 (the replace), 3 (the comparison) and 4 (the delay): the numbers *)
(* of the same reads in the datetime branch of the caller.                 *)
(***************************************************************************)
\* hrs, mins = map(int, update_interval.split(":")) raises ValueError unless
\* there are exactly two parts and both are integers; replace() raises
\* ValueError for an hour above 23 or a minute above 59
TimePartsRaise(str) ==
    LET c == ColonAt(str)
        hh == SubSeq(str, 1, c - 1)
        mm == SubSeq(str, c + 1, Len(str))
    IN  \/ c = 0
        \/ ColonAt(mm) # 0
        \/ IntRaises(hh) \/ IntRaises(mm)
        \/ IntOf(hh) >= HoursPerDay \/ IntOf(mm) >= MinutesPerHour

RolloverBefore_OrAt(update_time, now) == update_time <= now

\* update_time < datetime.datetime.now(): the time of day has passed today
RolloverBefore(update_time, now) == update_time < now

time_to_update_interval(str, now, k) ==
    IF TimePartsRaise(str)
    THEN [status |-> "ValueError", time_to_update |-> 0, update_time |-> 0]
    ELSE LET c == ColonAt(str)
             hrs == IntOf(SubSeq(str, 1, c - 1))
             mins == IntOf(SubSeq(str, c + 1, Len(str)))
             today == Replace(Clk(now, k, 2), hrs, mins)
             update_time == IF RolloverBefore(today, Clk(now, k, 3))
                            THEN today + OneDay ELSE today
         IN  [status |-> "ok",
              time_to_update |-> update_time - Clk(now, k, 4),
              update_time |-> update_time]

(***************************************************************************)
(* The parsing half of schedule_covid_updates / schedule_news_updates:     *)
(* from update_interval to (time_to_update, update_time).  status is "ok", *)
(* "abort" (the early return None) or the exception raised.                *)
(***************************************************************************)
\* the isinstance(update_interval, datetime.datetime) branch;
\* reads 1 (is it past?), 2 (the replace), 3 (the comparison), 4 (the delay)
IsPast_Never(t, now) == FALSE

\* update_time < datetime.datetime.now(): the datetime lies in the past
IsPast(t, now) == t < now

ParseDatetime(t, now, k) ==
    LET today == Replace(Clk(now, k, 2), Hour(t), Minute(t))
        update_time ==
            IF IsPast(t, Clk(now, k, 1))
            THEN IF today < Clk(now, k, 3) THEN today + OneDay ELSE today
            ELSE t
    IN  [status |-> "ok",
         time_to_update |-> update_time - Clk(now, k, 4),
         update_time |-> update_time]

IntUpdateTime(n, now) == now + n

\* the isinstance(update_interval, int) branch; read 1
ParseInt(n, now, k) ==
    [status |-> "ok",
     time_to_update |-> Abs(n),
     update_time |-> IntUpdateTime(n, Clk(now, k, 1))]

ParseInterval(d, ui, now, k) ==
    IF ui.type = "str"
    THEN IF TimeMatch(d, ui.text)
         THEN time_to_update_interval(ui.text, now, k)
         ELSE IF DigitMatch(d, ui.text)
              THEN IF IntRaises(ui.text)
                   THEN [status |-> "ValueError", time_to_update |-> 0,
                         update_time |-> 0]
                   ELSE ParseInt(IntOf(ui.text), now, k)
              ELSE [status |-> "abort", time_to_update |-> 0, update_time |-> 0]
    ELSE IF ui.type = "datetime"
         THEN ParseDatetime(ui.num, now, k)
         ELSE IF ui.type = "int"
              THEN ParseInt(ui.num, now, k)
              \* no branch assigns update_time: the logging line reads an
              \* unbound local
              ELSE [status |-> "UnboundLocalError", time_to_update |-> 0,
                    update_time |-> 0]

(***************************************************************************)
(* sched.scheduler: the queue in the order run() pops it, by due time and, *)
(* among equal due times (the priority is always 1), by the order of the   *)
(* enter calls (sched.Event's sequence number).                            *)
(***************************************************************************)
\* scheduler.enter(delay, 1, action, (update_time, update_name, repeat));
\* `time` is time.time() + delay
Event(time, update_time, update_name, repeat) ==
    [time |-> time, update_time |-> update_time,
     update_name |-> update_name, repeat |-> repeat]

Enter_Front(q, ev) ==
    LET n == Cardinality({i \in 1..Len(q) : q[i].time < ev.time})
    IN  SubSeq(q, 1, n) \o <<ev>> \o SubSeq(q, n + 1, Len(q))

Enter(q, ev) ==
    LET n == Cardinality({i \in 1..Len(q) : q[i].time <= ev.time})
    IN  SubSeq(q, 1, n) \o <<ev>> \o SubSeq(q, n + 1, Len(q))

InQueue(q, ev) == \E i \in 1..Len(q) : q[i] = ev

Remove_None(q, ev) == q

\* scheduler.cancel(event): list.remove raises ValueError when it is absent
Remove(q, ev) ==
    LET i == CHOOSE j \in 1..Len(q) :
                 q[j] = ev /\ \A h \in 1..(j - 1) : q[h] # ev
    IN  SubSeq(q, 1, i - 1) \o SubSeq(q, i + 1, Len(q))

DelKey_Keep(reg, name) == reg

\* del scheduled_updates[update_name]
DelKey(reg, name) == [n \in (DOMAIN reg) \ {name} |-> reg[n]]

(***************************************************************************)
(* schedule_covid_updates / schedule_news_updates on a program state s     *)
(* (a record of the module globals, see State below).  Read 5 is the       *)
(* time.time() of scheduler.enter.                                         *)
(***************************************************************************)
NameIsFree_Always(reg, update_name) == TRUE

NameIsFree(reg, update_name) == update_name \notin DOMAIN reg

Register_Unqueued(s, d, p, update_name, repeat, k) ==
    LET event == Event(Clk(s.now, k, ClockReads) + p.time_to_update, p.update_time,
                       update_name, repeat)
    IN  [s EXCEPT
           !.scheduled_updates[d] =
               @ @@ (update_name :> [event |-> event,
                                     update_time |-> p.update_time,
                                     repeat |-> repeat])]

Register_Shared(s, d, p, update_name, repeat, k) ==
    LET event == Event(Clk(s.now, k, ClockReads) + p.time_to_update, p.update_time,
                       update_name, repeat)
    IN  [s EXCEPT
           !.scheduler[d] = Enter(@, event),
           !.scheduled_updates =
               [x \in Domains |->
                   @[x] @@ (update_name :> [event |-> event,
                                            update_time |-> p.update_time,
                                            repeat |-> repeat])]]

\* event = scheduler.enter(...); scheduled_updates[update_name] = {...}
Register(s, d, p, update_name, repeat, k) ==
    LET event == Event(Clk(s.now, k, ClockReads) + p.time_to_update, p.update_time,
                       update_name, repeat)
    IN  [s EXCEPT
           !.scheduler[d] = Enter(@, event),
           !.scheduled_updates[d] =
               @ @@ (update_name :> [event |-> event,
                                     update_time |-> p.update_time,
                                     repeat |-> repeat])]

schedule_updates(s, d, ui, update_name, repeat, k) ==
    LET p == ParseInterval(d, ui, s.now, k)
    IN  IF p.status = "abort" THEN s
        ELSE IF p.status # "ok" THEN [s EXCEPT !.exc = p.status]
        ELSE IF NameIsFree(s.scheduled_updates[d], update_name)
             THEN Register(s, d, p, update_name, repeat, k)
             ELSE s

(***************************************************************************)
(* cancel_scheduled_update(update_name), the same code in both modules.    *)
(***************************************************************************)
CancelUnknown_Raises(s) == [s EXCEPT !.exc = "KeyError"]

\* the else branch: update_name is not in scheduled_updates, only logged
CancelUnknown(s) == s

cancel_scheduled_update(s, d, update_name) ==
    IF update_name \in DOMAIN s.scheduled_updates[d]
    THEN LET event == s.scheduled_updates[d][update_name].event
         IN  IF InQueue(s.scheduler[d], event)
             THEN [s EXCEPT !.scheduler[d] = Remove(@, event),
                            !.scheduled_updates[d] = DelKey(@, update_name)]
             ELSE [s EXCEPT !.exc = "ValueError"]
    ELSE CancelUnknown(s)

(***************************************************************************)
(* What a fetch does is the environment's choice.  o is one choice for a   *)
(* whole call: o.local and o.national are the outcomes of the two          *)
(* Cov19API requests, o.payload the data a successful one returns, o.news  *)
(* the outcome of requests.get and o.articles the articles of a successful *)
(* response.                                                               *)
(***************************************************************************)
\* no data yet: the module-level {} of covid_data / national_covid_data
NoData == "{}"
\* the {"data": None} covid_API_request returns from its except clauses
NullData == "{data: None}"

\* the except clauses of covid_API_request
CovidHandled == {"FailedRequestError", "ConnectionError"}
\* the except clauses of news_API_request
NewsHandled == {"ConnectionError", "Timeout"}

RetrySpec_Minute == IntSpec(SecondsPerMinute)

RetrySpec == IntSpec(RetryDelay)

\* covid_API_request: the new state and the value returned
covid_API_request(s, outcome, payload) ==
    IF outcome = "ok" THEN [s |-> s, ret |-> payload]
    ELSE IF outcome \in CovidHandled
         THEN [s |-> schedule_updates(s, "covid", RetrySpec, RetryName, FALSE, 0),
               ret |-> NullData]
         ELSE [s |-> [s EXCEPT !.exc = outcome], ret |-> NullData]

\* bool(api_response) of a dict: only the empty dict is falsy
Truthy(data) == data # NoData

\* news_API_request: ret is "json" (response.json(), whose status and
\* articles are o.news and o.articles) or "None"
news_API_request(s, o) ==
    IF o.news \in {"ok", "error"} THEN [s |-> s, ret |-> "json"]
    ELSE IF o.news \in NewsHandled
         THEN [s |-> schedule_updates(s, "news", RetrySpec, RetryName, FALSE, 0),
               ret |-> "None"]
         ELSE [s |-> [s EXCEPT !.exc = o.news], ret |-> "None"]

\* the articles shown: news[:5]
DisplayCap == 5

FormatArticle(article) == [title |-> article.title, content |-> article.url]

\* news_formatter()
news_formatter(s) ==
    LET temp_news_list == IF Len(s.news) >= DisplayCap
                          THEN SubSeq(s.news, 1, DisplayCap) ELSE s.news
    IN  [s EXCEPT !.formatted_news =
            [i \in 1..Len(temp_news_list) |-> FormatArticle(temp_news_list[i])]]

\* the articles of a response whose title is not in removed_articles
RECURSIVE KeepArticles(_, _)
KeepArticles(articles, removed) ==
    IF articles = <<>> THEN <<>>
    ELSE IF Head(articles).title \notin removed
         THEN <<Head(articles)>> \o KeepArticles(Tail(articles), removed)
         ELSE KeepArticles(Tail(articles), removed)

ClearedNews(old) == <<>>

\* update_news()
update_news(s, o) ==
    LET r == news_API_request(s, o)
    IN  IF r.s.exc # "none" THEN r.s
        ELSE LET s1 == [r.s EXCEPT !.news = ClearedNews(@)]
             IN  IF r.ret = "json" /\ o.news # "error"
                 THEN news_formatter(
                          [s1 EXCEPT !.news =
                               KeepArticles(o.articles, s1.removed_articles)])
                 ELSE s1

\* the index del news[article_index] removes: article_titles.index(title)
TitleIndex(list, title) ==
    CHOOSE i \in 1..Len(list) :
        list[i].title = title /\ \A j \in 1..(i - 1) : list[j].title # title

DelTitle(list, title) ==
    LET i == TitleIndex(list, title)
    IN  SubSeq(list, 1, i - 1) \o SubSeq(list, i + 1, Len(list))

\* add_removed_article(article_title); removed_articles is only ever tested
\* for membership, and is kept as the set of its elements
add_removed_article(s, title) ==
    LET s1 == [s EXCEPT !.removed_articles = @ \cup {title}]
    IN  news_formatter(
            IF \E i \in 1..Len(s1.news) : s1.news[i].title = title
            THEN [s1 EXCEPT !.news = DelTitle(@, title)]
            ELSE s1)

(***************************************************************************)
(* The callbacks the scheduler invokes: sch_update_covid_data and          *)
(* sch_update_news, applied to the arguments of the event.                 *)
(***************************************************************************)
Adopt(old, response) == IF Truthy(response) THEN response ELSE old

RearmTime_Drift(update_time) == update_time + OneDay + ClockStep

\* update_time + datetime.timedelta(days=1)
RearmTime(update_time) == update_time + OneDay

Rearm_Never(s, d, ev) == s

\* `if repeat:` of the callbacks: the update is scheduled again, a day later
Rearm(s, d, ev) ==
    IF s.exc = "none" /\ ev.repeat
    THEN schedule_updates(s, d, DatetimeSpec(RearmTime(ev.update_time)),
                          ev.update_name, ev.repeat, 0)
    ELSE s

sch_update_covid_data(s, ev, o) ==
    IF ev.update_name \notin DOMAIN s.scheduled_updates["covid"]
    THEN [s EXCEPT !.exc = "KeyError"]
    ELSE LET s1 == [s EXCEPT !.scheduled_updates["covid"] =
                                 DelKey(@, ev.update_name)]
             r1 == covid_API_request(s1, o.local, o.payload)
             r2 == covid_API_request(r1.s, o.national, o.payload)
         IN  IF r1.s.exc # "none" THEN r1.s
             ELSE IF r2.s.exc # "none" THEN r2.s
             ELSE Rearm([r2.s EXCEPT
                            !.covid_data = Adopt(@, r1.ret),
                            !.national_covid_data = Adopt(@, r2.ret)],
                        "covid", ev)

sch_update_news(s, ev, o) ==
    IF ev.update_name \notin DOMAIN s.scheduled_updates["news"]
    THEN [s EXCEPT !.exc = "KeyError"]
    ELSE Rearm(update_news([s EXCEPT !.scheduled_updates["news"] =
                                         DelKey(@, ev.update_name)], o),
               "news", ev)

Callback(s, d, ev, o) ==
    IF d = "covid" THEN sch_update_covid_data(s, ev, o)
    ELSE sch_update_news(s, ev, o)

IsDue_Never(ev, now) == FALSE

\* sched's run(blocking=False): the head is run when its time has come
IsDue(ev, now) == ev.time <= now

\* scheduler.run(blocking=False): pop and call the head while it is due; an
\* exception of a callback leaves run() with the event already popped
RECURSIVE run(_, _, _)
run(s, d, o) ==
    IF s.exc # "none" \/ s.scheduler[d] = <<>> THEN s
    ELSE LET ev == Head(s.scheduler[d])
         IN  IF IsDue(ev, s.now)
             THEN run(Callback([s EXCEPT !.scheduler[d] = Tail(@),
                                         !.fired = Append(@, ev.update_name)],
                               d, ev, o),
                      d, o)
             ELSE s

(***************************************************************************)
(* The inputs of the bounded environment.                                  *)
(***************************************************************************)
\* names a caller schedules under; home() builds them as "<name> - <time>",
\* so that none is the RetryName
UserNames == {"a - 12:34"}
AllNames == UserNames \cup {RetryName}

StrSpecs ==
    { <<"1", "2", ":", "3", "4">>,     \* "12:34"
      <<"5", "4", ":", "4", "3">>,     \* "54:43"
      <<"3", "0">>,                    \* "30"
      <<"b", "a", "d">> }              \* "bad"

IntSpecs == {30, -30}

\* a datetime of the past, as the tests pass one: day 0, 01:01:01
PastDatetime == (MinutesPerHour + 1) * SecondsPerMinute + 1

Specs ==
    {StrSpec(str) : str \in StrSpecs} \cup {IntSpec(n) : n \in IntSpecs}
        \cup {DatetimeSpec(PastDatetime)}

Payloads == {"data1"}

Article(title, url) == [title |-> title, url |-> url]

\* the articles a response may carry; two of them have the same title
FetchLists ==
    { <<Article("t1", "u1"), Article("t2", "u2")>>,
      <<Article("t1", "u1"), Article("t1", "u3"), Article("t2", "u2")>> }

ShortList == <<Article("t2", "u2")>>

\* the titles a caller asks to remove
Titles == {"t1"}

\* what a fetch may do: succeed, or fail in one of the ways the module's
\* except clauses name (and, for the news API, answer with status "error")
CovidOutcomes == {"ok", "FailedRequestError", "ConnectionError"}
NewsOutcomes == {"ok", "error", "ConnectionError", "Timeout"}

NoFetch ==
    [local |-> "ok", national |-> "ok", payload |-> "none",
     news |-> "ok", articles |-> <<>>]

\* The modules are driven by one process, which uses one part of them: the
\* scheduling functions of the covid handler ("covid"), those of the news
\* handler ("news"), or the article functions of the news handler
\* ("articles"), as the test modules of the repository do.
Clients == {"covid", "news", "articles"}

DomainOf(c) == IF c = "covid" THEN "covid" ELSE "news"

\* the environment's choices for the fetches of one call of client c; a
\* payload or an article list is chosen only where a response carries one
Fetches(c) ==
    IF c = "covid"
    THEN {[NoFetch EXCEPT !.local = l, !.national = n, !.payload = p] :
              l \in CovidOutcomes, n \in CovidOutcomes, p \in Payloads}
    ELSE {[NoFetch EXCEPT !.news = "ok", !.articles = a] :
              a \in IF c = "articles" THEN FetchLists ELSE {ShortList}}
         \cup {[NoFetch EXCEPT !.news = n] : n \in NewsOutcomes \ {"ok"}}

(***************************************************************************)
(* The program state: the module globals of the two handlers, by domain.   *)
(***************************************************************************)
VARIABLES
    now,                  \* the clock: time.time() and datetime.now()
    scheduled_updates,    \* [domain -> the module's scheduled_updates dict]
    scheduler,            \* [domain -> the queue of the module's scheduler]
    covid_data,           \* covid_data_handler.covid_data
    national_covid_data,  \* covid_data_handler.national_covid_data
    news,                 \* covid_news_handling.news
    formatted_news,       \* covid_news_handling.formatted_news
    removed_articles,     \* covid_news_handling.removed_articles
    client,               \* the process that imported the modules
    last,                 \* the call made last: its arguments and outcome
    dashboard_updates,    \* covid_dashboard.scheduled_updates, the merged view
    page                  \* what home() passed to render_template last

vars == <<now, scheduled_updates, scheduler, covid_data, national_covid_data,
          news, formatted_news, removed_articles, client, last,
          dashboard_updates, page>>

\* the globals as one record, with the exception raised so far (exc) and
\* the names of the callbacks run so far (fired) by the call in progress
State ==
    [now |-> now, scheduled_updates |-> scheduled_updates,
     scheduler |-> scheduler, covid_data |-> covid_data,
     national_covid_data |-> national_covid_data, news |-> news,
     formatted_news |-> formatted_news, removed_articles |-> removed_articles,
     dashboard_updates |-> dashboard_updates, page |-> page,
     exc |-> "none", fired |-> <<>>]

\* last: the call made last.  op is the function called and res what the
\* call did: "raised" if it raised an exception, else the branch a schedule
\* or cancel call took, whether a poll ran a callback ("idle" if none) and
\* whether a fetch of the call failed in a way its except clauses handle;
\* fired is the set of the update names whose callbacks the call ran.
NoCall == [op |-> "none", res |-> "none", fired |-> {}]

Names(seq) == {seq[i] : i \in DOMAIN seq}

Outcome(s, res) == IF s.exc # "none" THEN "raised" ELSE res

\* a fetch under o fails in a way the domain's except clauses handle
FetchFails(d, o) ==
    IF d = "covid"
    THEN o.local \in CovidHandled \/ o.national \in CovidHandled
    ELSE o.news \in NewsHandled

ScheduleResult(d, ui, name, k) ==
    LET p == ParseInterval(d, ui, now, k)
    IN  IF p.status = "abort" THEN "abort"
        ELSE IF p.status # "ok" THEN "raised"
        ELSE IF NameIsFree(scheduled_updates[d], name) THEN "registered"
        ELSE "duplicate"

CancelResult(d, name) ==
    IF name \in DOMAIN scheduled_updates[d] THEN "cancelled" ELSE "unknown"

\* nothing rendered yet
NoPage == [rendered |-> FALSE]

\* the state after a call that took the globals to s
Return(s, call) ==
    /\ now' = s.now
    /\ scheduled_updates' = s.scheduled_updates
    /\ scheduler' = s.scheduler
    /\ covid_data' = s.covid_data
    /\ national_covid_data' = s.national_covid_data
    /\ news' = s.news
    /\ formatted_news' = s.formatted_news
    /\ removed_articles' = s.removed_articles
    /\ client' = client
    /\ dashboard_updates' = s.dashboard_updates
    /\ page' = s.page
    /\ last' = [call EXCEPT !.res = Outcome(s, @), !.fired = Names(s.fired)]

Init ==
    /\ now = StartTime
    /\ scheduled_updates = [d \in Domains |-> <<>>]
    /\ scheduler = [d \in Domains |-> <<>>]
    /\ covid_data = NoData
    /\ national_covid_data = NoData
    /\ news = <<>>
    /\ formatted_news = <<>>
    /\ removed_articles = {}
    /\ client \in Clients
    /\ last = NoCall
    /\ dashboard_updates = <<>>
    /\ page = NoPage

StepsToday(t) == ((t - StartTime) % OneDay) \div ClockStep
DaysPassed(t) == (t - StartTime) \div OneDay

\* the clock moves on between two calls
Tick ==
    /\ StepsToday(now) < MaxSteps
    /\ now' = now + ClockStep
    /\ last' = [NoCall EXCEPT !.op = "tick"]
    /\ UNCHANGED <<scheduled_updates, scheduler, covid_data, national_covid_data,
                   news, formatted_news, removed_articles, client,
                   dashboard_updates, page>>

\* a day passes without any call
NextDay ==
    /\ DaysPassed(now) < MaxDays
    /\ now' = now + OneDay
    /\ last' = [NoCall EXCEPT !.op = "tick"]
    /\ UNCHANGED <<scheduled_updates, scheduler, covid_data, national_covid_data,
                   news, formatted_news, removed_articles, client,
                   dashboard_updates, page>>

\* schedule_covid_updates(ui, name, repeat) / schedule_news_updates(...)
Schedule(d, ui, name, repeat, k) ==
    /\ k # 0 => StepsToday(now) < MaxSteps
    /\ \E s \in {schedule_updates(State, d, ui, name, repeat, k)},
          res \in {ScheduleResult(d, ui, name, k)} :
          Return([s EXCEPT !.now = Clk(now, k, ClockReads)],
                 [NoCall EXCEPT !.op = "schedule", !.res = res])

\* cancel_scheduled_update(name) of either module
Cancel(d, name) ==
    \E s \in {cancel_scheduled_update(State, d, name)} :
        Return(s, [NoCall EXCEPT !.op = "cancel", !.res = CancelResult(d, name)])

\* scheduler.run(blocking=False) of either module
Poll(d, o) ==
    \E s \in {run(State, d, o)} :
        Return(s, [NoCall EXCEPT !.op = "poll",
                   !.res = IF s.fired = <<>> THEN "idle"
                           ELSE IF FetchFails(d, o) THEN "failed" ELSE "fired"])

\* update_news() called directly
UpdateNews(o) ==
    \E s \in {update_news(State, o)} :
        Return(s, [NoCall EXCEPT !.op = "update_news",
                   !.res = IF FetchFails("news", o) THEN "failed" ELSE "ok"])

\* add_removed_article(title)
AddRemovedArticle(title) ==
    \E s \in {add_removed_article(State, title)} :
        Return(s, [NoCall EXCEPT !.op = "remove", !.res = "done"])

Next ==
    \/ Tick
    \/ NextDay
    \/ \E ui \in Specs, name \in UserNames, repeat \in BOOLEAN, k \in ClockOracles :
          /\ client \in Domains
          /\ Schedule(client, ui, name, repeat, k)
    \/ \E name \in AllNames : client \in Domains /\ Cancel(client, name)
    \/ \E o \in Fetches(client) : Poll(DomainOf(client), o)
    \/ \E o \in Fetches("articles") : client = "articles" /\ UpdateNews(o)
    \/ \E title \in Titles : client = "articles" /\ AddRemovedArticle(title)

Spec == Init /\ [][Next]_vars

(***************************************************************************)
(* The same process when requests keep arriving and the user leaves the    *)
(* retry alone: the clock moves on while it can, polls keep being made,    *)
(* and only the user's own updates are cancelled.                          *)
(***************************************************************************)
PollSome == \E o \in Fetches(client) : Poll(DomainOf(client), o)

NextLive ==
    \/ Tick
    \/ NextDay
    \/ \E ui \in Specs, name \in UserNames, repeat \in BOOLEAN, k \in ClockOracles :
          /\ client \in Domains
          /\ Schedule(client, ui, name, repeat, k)
    \/ \E name \in UserNames : client \in Domains /\ Cancel(client, name)
    \/ PollSome
    \/ \E o \in Fetches("articles") : client = "articles" /\ UpdateNews(o)
    \/ \E title \in Titles : client = "articles" /\ AddRemovedArticle(title)

\* requests keep arriving: a poll is made again and again
PollsKeepRunning == []<>(last.op = "poll")

SpecLive ==
    /\ Init /\ [][NextLive]_vars
    /\ WF_vars(Tick) /\ WF_vars(NextDay)
    /\ PollsKeepRunning

(***************************************************************************)
(* process_covid_csv_data(covid_data_local).  A record carries the three   *)
(* statistics; a value is <<>> (None: the API has no figure) or <<n>>, and *)
(* a result is <<>> ("N/A") or <<n>>.                                      *)
(***************************************************************************)
NA == <<>>

\* the days the case total spans
WeekDays == 7

\* `if item[field]`: None and 0 are falsy
HasValue(v) == v # <<>> /\ v[1] # 0

\* next((index for index, item in enumerate(...) if item[field]), None),
\* counted from 1; 0 is None
FirstWith(list, field) ==
    IF \E i \in 1..Len(list) : HasValue(list[i][field])
    THEN CHOOSE i \in 1..Len(list) :
             /\ HasValue(list[i][field])
             /\ \A j \in 1..(i - 1) : ~HasValue(list[j][field])
    ELSE 0

\* the records the loop over range(days) reads: those after the first one
\* with cases, seven at most
CasesWindow(list) ==
    LET first_date == FirstWith(list, "new_cases")
        rest == Len(list) - first_date
        days == IF rest > WeekDays THEN WeekDays ELSE rest
    IN  SubSeq(list, first_date + 1, first_date + days)

RECURSIVE SumCases(_)
SumCases(window) ==
    IF window = <<>> THEN 0
    ELSE window[1].new_cases[1] + SumCases(Tail(window))

\* int(None) raises TypeError
process_covid_csv_data(list) ==
    LET window == CasesWindow(list)
        hospital == FirstWith(list, "hospital_cases")
        deaths == FirstWith(list, "cum_deaths")
    IN  IF /\ FirstWith(list, "new_cases") # 0
           /\ \E i \in 1..Len(window) : window[i].new_cases = <<>>
        THEN [exc |-> "TypeError", cases |-> NA, hospital |-> NA, deaths |-> NA]
        ELSE [exc |-> "none",
              cases |-> IF FirstWith(list, "new_cases") = 0 THEN NA
                        ELSE <<SumCases(window)>>,
              hospital |-> IF hospital = 0 THEN NA
                           ELSE list[hospital].hospital_cases,
              deaths |-> IF deaths = 0 THEN NA ELSE list[deaths].cum_deaths]

(***************************************************************************)
(* covid_dashboard.py: home(), the handler of every request, with          *)
(* collate_update_lists and data_init.                                     *)
(***************************************************************************)
\* the records of a payload, the latest first: the API has hospital cases
\* and deaths only for some areas and dates
PayloadRecords ==
    << [new_cases |-> <<>>, hospital_cases |-> <<>>, cum_deaths |-> <<>>],
       [new_cases |-> <<3>>, hospital_cases |-> <<3>>, cum_deaths |-> <<>>],
       [new_cases |-> <<3>>, hospital_cases |-> <<0>>, cum_deaths |-> <<3>>] >>

\* covid_data["data"]: None in the dict of a failed request
Records(data) == IF data \in Payloads THEN PayloadRecords ELSE <<>>

NoStats ==
    [exc |-> "none", local |-> NA, national |-> NA, hospital |-> NA,
     deaths |-> NA]

\* the statistics home() shows; {} has no key "data", and `and` reads the
\* national snapshot only if the local one has data
ReadSnapshots(s) ==
    IF s.covid_data = NoData THEN [NoStats EXCEPT !.exc = "KeyError"]
    ELSE IF Records(s.covid_data) = <<>> THEN NoStats
    ELSE IF s.national_covid_data = NoData THEN [NoStats EXCEPT !.exc = "KeyError"]
    ELSE IF Records(s.national_covid_data) = <<>> THEN NoStats
    ELSE LET national_stats ==
                 process_covid_csv_data(Records(s.national_covid_data))
             local_stats == process_covid_csv_data(Records(s.covid_data))
         IN  IF national_stats.exc # "none"
             THEN [NoStats EXCEPT !.exc = national_stats.exc]
             ELSE IF local_stats.exc # "none"
                  THEN [NoStats EXCEPT !.exc = local_stats.exc]
                  ELSE [exc |-> "none", local |-> local_stats.cases,
                        national |-> national_stats.cases,
                        hospital |-> national_stats.hospital,
                        deaths |-> national_stats.deaths]

\* request.args.get(...) of a parameter that is not there
NoneSpec == [type |-> "NoneType", text |-> <<>>, num |-> 0]

\* the arguments of a request; "" and NoneSpec stand for None
NoRequest ==
    [notif |-> "", update |-> NoneSpec, two |-> "", repeat |-> FALSE,
     covid |-> FALSE, news |-> FALSE, update_item |-> ""]

\* str(update_time) of an f-string
RECURSIVE Text(_)
Text(chars) == IF chars = <<>> THEN "" ELSE Head(chars) \o Text(Tail(chars))

\* update_title = f"{update_name} - {update_time}"
Title(update_name, update_time) ==
    update_name \o " - " \o
        (IF update_time.type = "str" THEN Text(update_time.text) ELSE "None")

PollSchedulers_Skip(s, o) == s

\* cdh.scheduler.run(blocking=False); cnh.scheduler.run(blocking=False)
PollSchedulers(s, o) == run(run(s, "covid", o), "news", o)

\* the two calls of a schedule intent; an exception of the first leaves
\* home() before the second
ScheduleCovid(s, req, update_title) ==
    IF req.covid
    THEN schedule_updates(s, "covid", req.update, update_title, req.repeat, 0)
    ELSE s

ScheduleNews(s, req, update_title) ==
    IF s.exc = "none" /\ req.news
    THEN schedule_updates(s, "news", req.update, update_title, req.repeat, 0)
    ELSE s

\* the schedule intent of a request
ScheduleIntent(s, req) ==
    IF ~(req.covid \/ req.news) THEN s
    ELSE LET update_title == Title(req.two, req.update)
         IN  IF update_title \in DOMAIN s.dashboard_updates THEN s
             ELSE ScheduleNews(ScheduleCovid(s, req, update_title), req,
                               update_title)

\* the two calls of a cancel intent, for the entry update of the merged view
CancelNews(s, update, name) ==
    IF update.news THEN cancel_scheduled_update(s, "news", name) ELSE s

CancelCovid(s, update, name) ==
    IF s.exc = "none" /\ update.covid
    THEN cancel_scheduled_update(s, "covid", name)
    ELSE s

\* the cancel intent of a request
CancelIntent(s, req) ==
    IF req.update_item = "" THEN s
    ELSE IF req.update_item \notin DOMAIN s.dashboard_updates
         THEN [s EXCEPT !.exc = "KeyError"]
         ELSE CancelCovid(CancelNews(s, s.dashboard_updates[req.update_item],
                                     req.update_item),
                          s.dashboard_updates[req.update_item],
                          req.update_item)

\* the remove-article intent of a request
RemoveIntent(s, req) ==
    IF req.notif = "" THEN s ELSE add_removed_article(s, req.notif)

NewsFlag_Never(name, news_updates) == FALSE

\* covid_update in cnh.scheduled_updates
NewsFlag(name, news_updates) == name \in DOMAIN news_updates

\* collate_update_lists(): the view is rebuilt from the two registries; the
\* time and the repeat flag of a name in both are those of the covid entry
collate_update_lists(s) ==
    LET covid_updates == s.scheduled_updates["covid"]
        news_updates == s.scheduled_updates["news"]
        covid_part ==
            [name \in DOMAIN covid_updates |->
                [covid |-> TRUE, news |-> NewsFlag(name, news_updates),
                 time |-> covid_updates[name].update_time,
                 repeat |-> covid_updates[name].repeat]]
        news_part ==
            [name \in DOMAIN news_updates \ DOMAIN covid_part |->
                [covid |-> FALSE, news |-> TRUE,
                 time |-> news_updates[name].update_time,
                 repeat |-> news_updates[name].repeat]]
    IN  [s EXCEPT !.dashboard_updates = covid_part @@ news_part]

\* one step of home(): skipped once an exception is on its way out
Then(s, next) == IF s.exc # "none" THEN s ELSE next

\* the steps of home() after the poll, in the order of the code
ReadStep(s) == Then(s, [s EXCEPT !.exc = ReadSnapshots(s).exc])
ScheduleStep(s, req) == Then(s, ScheduleIntent(s, req))
CancelStep(s, req) == Then(s, CancelIntent(s, req))
RemoveStep(s, req) == Then(s, RemoveIntent(s, req))
CollateStep(s) == Then(s, collate_update_lists(s))

\* render_template(...) with the statistics read after the poll
render_template(s, stats) ==
    Then(s, [s EXCEPT !.page =
                [rendered |-> TRUE, local |-> stats.local,
                 national |-> stats.national, hospital |-> stats.hospital,
                 deaths |-> stats.deaths, news_articles |-> s.formatted_news,
                 updates |-> DOMAIN s.dashboard_updates]])

\* home() from the state the poll has left
AfterPoll(polled, req) ==
    render_template(
        CollateStep(RemoveStep(CancelStep(ScheduleStep(ReadStep(polled), req),
                                          req), req)),
        ReadSnapshots(polled))

home(s, req, o) == AfterPoll(PollSchedulers(s, o), req)

\* data_init(), run before the first request
data_init(s, o) ==
    LET r1 == covid_API_request(s, o.local, o.payload)
        r2 == covid_API_request(r1.s, o.national, o.payload)
        s1 == Then(r1.s, [r1.s EXCEPT !.covid_data = r1.ret])
        s2 == Then(s1, [r2.s EXCEPT !.covid_data = r1.ret,
                                    !.national_covid_data = r2.ret])
    IN  Then(s2, update_news(s2, o))

\* the inputs of the dashboard: what the fetches of a request do, and the
\* requests the page sends
HomeFetches ==
    { [NoFetch EXCEPT !.payload = "data1", !.articles = ShortList],
      [NoFetch EXCEPT !.local = "ConnectionError",
                      !.national = "ConnectionError",
                      !.news = "ConnectionError"] }

\* "30", "12:34"
HomeTimes == { StrSpec(<<"3", "0">>), StrSpec(<<"1", "2", ":", "3", "4">>) }

HomeTitles == {Title("a", update) : update \in HomeTimes}

Requests ==
    {NoRequest}
    \cup {[NoRequest EXCEPT !.update = u, !.two = "a", !.covid = c,
                            !.news = n] :
              u \in HomeTimes, c \in BOOLEAN, n \in BOOLEAN}
    \cup {[NoRequest EXCEPT !.update = u, !.two = "a", !.repeat = TRUE,
                            !.covid = TRUE, !.news = TRUE] :
              u \in {StrSpec(<<"3", "0">>)}}
    \cup {[NoRequest EXCEPT !.update_item = name] :
              name \in HomeTitles \cup {RetryName, "unknown"}}
    \cup {[NoRequest EXCEPT !.notif = "t2"]}
    \* one URL with the arguments of a schedule and of a cancel
    \cup {[NoRequest EXCEPT !.update = u, !.two = "a", !.covid = TRUE,
                            !.update_item = "unknown"] :
              u \in {StrSpec(<<"3", "0">>)}}

\* the modules as imported by covid_dashboard
Imported ==
    [now |-> StartTime, scheduled_updates |-> [d \in Domains |-> <<>>],
     scheduler |-> [d \in Domains |-> <<>>], covid_data |-> NoData,
     national_covid_data |-> NoData, news |-> <<>>, formatted_news |-> <<>>,
     removed_articles |-> {}, dashboard_updates |-> <<>>, page |-> NoPage,
     exc |-> "none", fired |-> <<>>]

\* __main__: data_init() has run when app.run() takes the first request
InitHome ==
    \E s \in {data_init(Imported, o) : o \in HomeFetches} :
        /\ now = s.now
        /\ scheduled_updates = s.scheduled_updates
        /\ scheduler = s.scheduler
        /\ covid_data = s.covid_data
        /\ national_covid_data = s.national_covid_data
        /\ news = s.news
        /\ formatted_news = s.formatted_news
        /\ removed_articles = s.removed_articles
        /\ client = "dashboard"
        /\ last = NoCall
        /\ dashboard_updates = s.dashboard_updates
        /\ page = s.page

\* a request: home() from its first line to render_template
Home(req, o) ==
    \E s \in {home(State, req, o)} :
        Return(s, [NoCall EXCEPT !.op = "home", !.res = "done"])

NextHome ==
    \/ Tick
    \/ \E req \in Requests, o \in HomeFetches : Home(req, o)

SpecHome == InitHome /\ [][NextHome]_vars

(***************************************************************************)
(* load_config and the use data_init and the callbacks make of it.  A      *)
(* section of config.json is there or not, and holds some of its keys; a   *)
(* value that is there is written "configured".                            *)
(***************************************************************************)
CovidKeys == {"area_name", "area_type"}
NewsKeys == {"covid_terms", "api_key"}

Section(present, keys) == [present |-> present, keys |-> keys]

\* config.json: the file may be missing, either section may be missing, and
\* a section may lack any of its keys
Configs ==
    [file : BOOLEAN,
     covid : {Section(FALSE, {})} \cup {Section(TRUE, keys) : keys \in SUBSET CovidKeys},
     news : {Section(FALSE, {})} \cup {Section(TRUE, keys) : keys \in SUBSET NewsKeys}]

\* the module globals before load_config: '' , {} and ''
NoConfig ==
    [config_covid_terms |-> "", config_covid_location |-> Section(FALSE, {}),
     api_key |-> ""]

\* config["news"]["covid_terms"] raises KeyError
TermsMissing(config) ==
    ~config.news.present \/ "covid_terms" \notin config.news.keys

\* load_config(): the first try block stops at its first KeyError, so the
\* location is taken only when the search terms are there
load_config(config) ==
    IF ~config.file THEN NoConfig
    ELSE [config_covid_terms |->
              IF TermsMissing(config) THEN "" ELSE "configured",
          config_covid_location |->
              IF TermsMissing(config) \/ ~config.covid.present
              THEN Section(FALSE, {}) ELSE config.covid,
          api_key |->
              IF config.news.present /\ "api_key" \in config.news.keys
              THEN "configured" ELSE ""]

\* bool(config_covid_location): a dict with a key
LocationSet(loaded) ==
    loaded.config_covid_location.present
        /\ loaded.config_covid_location.keys # {}

\* config_covid_location["area_name"], config_covid_location["area_type"]
LocationRaises(loaded) ==
    LocationSet(loaded) /\ loaded.config_covid_location.keys # CovidKeys

\* the arguments of the local covid_API_request
LocationUsed(loaded) ==
    IF LocationSet(loaded)
    THEN [location |-> "configured", location_type |-> "configured"]
    ELSE [location |-> "Exeter", location_type |-> "ltla"]

\* covid_terms of news_API_request
TermsUsed(loaded) ==
    IF loaded.config_covid_terms # "" THEN "configured"
    ELSE "Covid COVID-19 coronavirus"

\* __main__: load_config() and data_init() from the modules as imported
StartUp(s, config, o) ==
    IF LocationRaises(load_config(config)) THEN [s EXCEPT !.exc = "KeyError"]
    ELSE data_init(s, o)


(***************************************************************************)
(* Properties.  A property of a function is stated for every call of it    *)
(* in every reachable state: D is the domain of the client, and the inputs *)
(* range over AnySpecs, the names and the clock oracles.                   *)
(***************************************************************************)
D == DomainOf(client)

\* "0:00", "12:33", "12:34", "23:59"
TimeStrings ==
    { <<"0", ":", "0", "0">>, <<"1", "2", ":", "3", "3">>,
      <<"1", "2", ":", "3", "4">>, <<"2", "3", ":", "5", "9">> }

\* a datetime two days after the start
FutureDatetime == StartTime + OneDay + OneDay

AnySpecs ==
    Specs \cup {StrSpec(str) : str \in TimeStrings}
          \cup {DatetimeSpec(PastDatetime), DatetimeSpec(FutureDatetime)}

Pending(d) == DOMAIN scheduled_updates[d]

\* C1: a schedule call under a name that is already in the registry of its
\* domain leaves the registry and the scheduler queue as they were, whatever
\* the interval spec, the repeat flag and the clock reads of the call.
C1_DuplicateNameRejected ==
    \A name \in Pending(D), ui \in AnySpecs, repeat \in BOOLEAN,
       k \in ClockOracles :
        LET s == schedule_updates(State, D, ui, name, repeat, k)
        IN  /\ s.scheduled_updates = scheduled_updates
            /\ s.scheduler = scheduler

\* a schedule call under a pending name has been made
C1_Witness ==
    /\ last.op = "schedule" /\ last.res = "duplicate"
    /\ UserNames \subseteq Pending(D)
    /\ Len(scheduler[D]) = Cardinality(Pending(D))

Entry(name) == scheduled_updates[D][name]

\* C2 (as amended): when a poll made before T + 24 hours runs the callback
\* of a repeating entry whose recorded fire time is T, the entry is pending
\* again under the same name after the poll, with repeat still true and
\* with the recorded fire time T + 24 hours, whether the fetch succeeded or
\* failed.
C2_RepeatRearmsNextDay ==
    \A o \in Fetches(client), name \in Pending(D) :
        LET s == run(State, D, o)
        IN  (/\ Entry(name).repeat
             /\ name \in Names(s.fired)
             /\ now < Entry(name).update_time + OneDay)
            => /\ name \in DOMAIN s.scheduled_updates[D]
               /\ s.scheduled_updates[D][name].repeat
               /\ s.scheduled_updates[D][name].update_time
                      = Entry(name).update_time + OneDay

\* C2 as stated: the same for a poll at any time at or after T.
C2_RepeatRearmsAnyPoll ==
    \A o \in Fetches(client), name \in Pending(D) :
        LET s == run(State, D, o)
        IN  (Entry(name).repeat /\ name \in Names(s.fired))
            => /\ name \in DOMAIN s.scheduled_updates[D]
               /\ s.scheduled_updates[D][name].repeat
               /\ s.scheduled_updates[D][name].update_time
                      = Entry(name).update_time + OneDay

\* a poll has run the callback of a repeating entry, which is pending again
C2_Witness ==
    /\ last.op = "poll"
    /\ \E name \in last.fired \cap Pending(D) :
          /\ Entry(name).repeat
          /\ Entry(name).update_time > now
          /\ Entry(name).update_time <= now + OneDay

\* C3: when a poll of the covid scheduler runs a callback whose local
\* (national) fetch fails with a connection or failed-request error, a
\* loaded covid_data (national_covid_data) keeps the value it had before.
C3_FailedFetchKeepsSnapshot ==
    \A o \in Fetches(client) :
        LET s == run(State, "covid", o)
        IN  (client = "covid" /\ s.fired # <<>>)
            => /\ (o.local \in CovidHandled /\ covid_data \in Payloads)
                      => s.covid_data = covid_data
               /\ (o.national \in CovidHandled /\ national_covid_data \in Payloads)
                      => s.national_covid_data = national_covid_data

\* C4: when update_news fails to fetch because of a connection error or a
\* timeout, the news list holds the articles it held before the call.
C4_FailedRefreshKeepsNews ==
    \A o \in Fetches("articles") :
        o.news \in NewsHandled => update_news(State, o).news = news

\* one fetch of domain d under the choice o, and whether it fails in a way
\* the except clauses of d handle
Fetch(s, d, o) ==
    IF d = "covid" THEN covid_API_request(s, o.local, o.payload).s
    ELSE news_API_request(s, o).s

Fails(d, o) ==
    IF d = "covid" THEN o.local \in CovidHandled ELSE o.news \in NewsHandled

\* the states a fetch starts from: between two calls, or in the callback of
\* the pending update `name`, which has deleted its own registry entry
FetchStates ==
    {State} \cup
    {[State EXCEPT !.scheduled_updates[D] = DelKey(@, name),
                   !.scheduler[D] = Remove(@, Entry(name).event)] :
         name \in Pending(D)}

RetryPolicy(s0, s1, d) ==
    LET reg0 == s0.scheduled_updates[d]
        reg1 == s1.scheduled_updates[d]
    IN  /\ s1.exc = "none"
        /\ RetryName \in DOMAIN reg1
        /\ ~reg1[RetryName].repeat
        /\ RetryName \notin DOMAIN reg0
              => /\ reg1[RetryName].event.time = s0.now + RetryDelay
                 /\ InQueue(s1.scheduler[d], reg1[RetryName].event)
                 /\ Len(s1.scheduler[d]) = Len(s0.scheduler[d]) + 1
        /\ RetryName \in DOMAIN reg0
              => /\ reg1 = reg0
                 /\ s1.scheduler[d] = s0.scheduler[d]
        /\ DOMAIN reg1 \ {RetryName} = DOMAIN reg0 \ {RetryName}
        /\ \A name \in DOMAIN reg0 \ {RetryName} : reg1[name] = reg0[name]

\* C5: a fetch that fails with a handled transport error returns with an
\* entry named "API Retry" in the registry of its domain, repeat false; the
\* entry is new, its event due 30 seconds after the failure, if none was
\* pending, and the pending one is left as it was otherwise; no other entry
\* of the registry is added, changed or removed.
C5_FailureRegistersRetry ==
    \A o \in Fetches(client), s0 \in FetchStates :
        Fails(D, o) => RetryPolicy(s0, Fetch(s0, D, o), D)

\* a call whose fetch failed has returned, the retry newly registered
C5_Witness ==
    /\ last.op \in {"poll", "update_news"} /\ last.res = "failed"
    /\ RetryName \in Pending(D)
    /\ ~Entry(RetryName).repeat
    /\ Entry(RetryName).event.time = now + RetryDelay

Shown(list, title) == \E i \in 1..Len(list) : list[i].title = title

\* C6: once add_removed_article(t) has returned, no article titled t is in
\* the news list or in the display list, whatever refreshes and removals
\* follow.
C6_RemovedNeverShown ==
    \A title \in removed_articles :
        ~Shown(news, title) /\ ~Shown(formatted_news, title)

\* a valid HH:MM time: an hour 0-23 of one or two digits, ":", a minute
\* 00-59 of two digits
IsClockTime(str) ==
    LET c == ColonAt(str)
        hh == SubSeq(str, 1, c - 1)
        mm == SubSeq(str, c + 1, Len(str))
    IN  /\ c \in {2, 3}
        /\ IsDigitStr(hh) /\ IntOf(hh) < HoursPerDay
        /\ Len(mm) = 2 /\ IsDigitStr(mm) /\ IntOf(mm) < MinutesPerHour

AnyStrings == StrSpecs \cup TimeStrings

\* C7: in either domain a schedule call with a string that is neither a
\* valid HH:MM time nor made of digits only returns without raising and
\* leaves the registry and the scheduler queue as they were.
C7_MalformedStringIgnored ==
    \A str \in AnyStrings, name \in AllNames, repeat \in BOOLEAN,
       k \in ClockOracles :
        (~IsClockTime(str) /\ ~IsDigitStr(str))
        => LET s == schedule_updates(State, D, StrSpec(str), name, repeat, k)
           IN  /\ s.exc = "none"
               /\ s.scheduled_updates = scheduled_updates
               /\ s.scheduler = scheduler

\* C8: in either domain a schedule call with a valid HH:MM string under a
\* name that is not in the registry adds exactly one registry entry, under
\* that name, and exactly one event to the scheduler queue of the domain.
C8_ClockTimeRegistersOnce ==
    \A str \in AnyStrings, name \in AllNames \ Pending(D), repeat \in BOOLEAN,
       k \in ClockOracles :
        IsClockTime(str)
        => LET s == schedule_updates(State, D, StrSpec(str), name, repeat, k)
           IN  /\ s.exc = "none"
               /\ DOMAIN s.scheduled_updates[D] = Pending(D) \cup {name}
               /\ Len(s.scheduler[D]) = Len(scheduler[D]) + 1

\* C9: in either domain and for every n > 0, a schedule call with the
\* interval -n records the fire time now + n, the one a call with the
\* interval n at the same instant records.
C9_NegativeIntervalSameFireTime ==
    \A n \in {m \in IntSpecs : m > 0}, name \in AllNames \ Pending(D),
       repeat \in BOOLEAN :
        LET pos == schedule_updates(State, D, IntSpec(n), name, repeat, 0)
            neg == schedule_updates(State, D, IntSpec(0 - n), name, repeat, 0)
        IN  /\ neg.scheduled_updates[D][name].update_time = now + n
            /\ neg.scheduled_updates[D][name].update_time
                   = pos.scheduled_updates[D][name].update_time

\* the day of t, and the seconds since midnight of the time of day str
DayOf(t) == t \div OneDay

TimeOfDay(str) ==
    LET c == ColonAt(str)
    IN  (IntOf(SubSeq(str, 1, c - 1)) * MinutesPerHour
             + IntOf(SubSeq(str, c + 1, Len(str)))) * SecondsPerMinute

\* what C10 says of the fire time t returned for str at the current time
\* (the clock standing still during the call), but for how t compares to it
ClockTimeResolved(str, t) ==
    /\ t % OneDay = TimeOfDay(str)
    /\ TimeOfDay(str) >= now % OneDay => DayOf(t) = DayOf(now)
    /\ TimeOfDay(str) < now % OneDay => DayOf(t) = DayOf(now) + 1

\* C10 (as amended): for every valid HH:MM string and every current time,
\* time_to_update_interval returns a fire time that is not earlier than the
\* current time (it is the current time when that is exactly HH:MM:00), has
\* the requested hour and minute with zero seconds, and falls today if that
\* time of day has not yet passed and tomorrow otherwise.
C10_ClockTimeNotEarlier ==
    \A str \in TimeStrings :
        LET r == time_to_update_interval(str, now, 0)
        IN  /\ IsClockTime(str)
            /\ r.status = "ok"
            /\ r.update_time >= now
            /\ r.time_to_update = r.update_time - now
            /\ ClockTimeResolved(str, r.update_time)

\* C10 as stated: the fire time is strictly later than the current time.
C10_ClockTimeStrictlyLater ==
    \A str \in TimeStrings :
        LET r == time_to_update_interval(str, now, 0)
        IN  /\ r.status = "ok"
            /\ r.update_time > now
            /\ ClockTimeResolved(str, r.update_time)

\* a schedule call made at exactly HH:MM:00 has registered that time of day
C10_Witness ==
    /\ last.op = "schedule" /\ last.res = "registered"
    /\ Second(now) = 0
    /\ \E name \in Pending(D) :
          /\ Entry(name).update_time = now
          /\ Entry(name).event.time = now

\* datetimes of the past: the one of the tests, the last second of day 0,
\* and two of the day before the start whose minute is the start's, or the
\* next one
PastDatetimes ==
    { PastDatetime, OneDay - 1, StartTime - OneDay + ClockStep \div 2,
      StartTime - OneDay + ClockStep }

\* the seconds since midnight of the hour and minute of the datetime t
HourMinute(t) == (Hour(t) * MinutesPerHour + Minute(t)) * SecondsPerMinute

\* C11: in either domain a schedule call with a datetime of the past under
\* a name that is not in the registry registers exactly one entry and one
\* event; the recorded fire time has the hour and the minute of the
\* datetime, is not earlier than the current time and less than 24 hours
\* after it: today if that hour and minute have not passed, else tomorrow.
C11_PastDatetimeNextOccurrence ==
    \A t \in PastDatetimes, name \in AllNames \ Pending(D), repeat \in BOOLEAN :
        LET s == schedule_updates(State, D, DatetimeSpec(t), name, repeat, 0)
            u == s.scheduled_updates[D][name].update_time
        IN  /\ t < now
            /\ s.exc = "none"
            /\ DOMAIN s.scheduled_updates[D] = Pending(D) \cup {name}
            /\ Len(s.scheduler[D]) = Len(scheduler[D]) + 1
            /\ Hour(u) = Hour(t) /\ Minute(u) = Minute(t)
            /\ u >= now /\ u < now + OneDay
            /\ HourMinute(t) >= now % OneDay => DayOf(u) = DayOf(now)
            /\ HourMinute(t) < now % OneDay => DayOf(u) = DayOf(now) + 1

\* a schedule call with the datetime of the tests has registered an entry
C11_Witness ==
    /\ last.op = "schedule" /\ last.res = "registered"
    /\ \E name \in UserNames \cap Pending(D) :
          /\ Hour(Entry(name).update_time) = Hour(PastDatetime)
          /\ Minute(Entry(name).update_time) = Minute(PastDatetime)
          /\ Entry(name).update_time >= now
          /\ Entry(name).update_time < now + OneDay

\* the names a caller may ask to cancel: the tests cancel an unknown one
CancelNames == AllNames \cup {"this_doesn't_exist"}

\* C13: in either domain, cancel_scheduled_update with a name that is not
\* in the registry returns without raising and leaves the registry and the
\* scheduler queue as they were.
C13_CancelUnknownIgnored ==
    \A name \in CancelNames \ Pending(D) :
        LET s == cancel_scheduled_update(State, D, name)
        IN  /\ s.exc = "none"
            /\ s.scheduled_updates = scheduled_updates
            /\ s.scheduler = scheduler

\* a cancel call for a name that is not pending has returned, another
\* update pending
C13_Witness ==
    /\ last.op = "cancel" /\ last.res = "unknown"
    /\ Pending(D) # {}
    /\ Len(scheduler[D]) = Cardinality(Pending(D))

\* how much later a poll may come
LaterTimes == {0, ClockStep, OneDay}

\* C14: in either domain, a schedule call that registers a name that was
\* not in the registry, followed by a cancel call for that name, leaves the
\* registry and the scheduler queue exactly as they were before the
\* schedule call; and a poll, now or later, runs callbacks only of names
\* that are in the registry, so none of a cancelled name.
C14_ScheduleThenCancelRestores ==
    /\ \A ui \in Specs, name \in AllNames \ Pending(D), repeat \in BOOLEAN,
          k \in ClockOracles :
           LET s1 == schedule_updates(State, D, ui, name, repeat, k)
               s2 == cancel_scheduled_update(s1, D, name)
           IN  name \in DOMAIN s1.scheduled_updates[D]
               => /\ s2.exc = "none"
                  /\ s2.scheduled_updates = scheduled_updates
                  /\ s2.scheduler = scheduler
    /\ \A o \in Fetches(client), later \in LaterTimes :
           Names(run([State EXCEPT !.now = now + later], D, o).fired)
               \subseteq Pending(D)

\* a cancel call has removed the update a schedule call had registered
C14_Witness ==
    /\ last.op = "cancel" /\ last.res = "cancelled"
    /\ UserNames \cap Pending(D) = {}
    /\ Len(scheduler[D]) = Cardinality(Pending(D))

\* the events of the queue q that are due at t, in the order of q
DueAt(q, t) ==
    LET Due(ev) == ev.time <= t
    IN  SelectSeq(q, Due)

\* the first position of name in the sequence of names seq, 0 if none
Position(seq, name) ==
    IF \E i \in 1..Len(seq) : seq[i] = name
    THEN CHOOSE i \in 1..Len(seq) :
             seq[i] = name /\ \A j \in 1..(i - 1) : seq[j] # name
    ELSE 0

\* two names no update is scheduled under
FifoNames == <<"first", "second">>

\* C15: a non-blocking poll of a scheduler runs the callback of every
\* event of the queue that is due at the current time, in the order of
\* their due times, and leaves every event due later in the queue, its
\* callback not run; of two events entered for the same due time, the one
\* entered first is run first.
C15_PollRunsDueInOrder ==
    \A o \in Fetches(client) :
        LET q == scheduler[D]
            s == run(State, D, o)
            due == DueAt(q, now)
            s1 == schedule_updates(State, D, IntSpec(RetryDelay), FifoNames[1],
                                   FALSE, 0)
            s2 == schedule_updates(s1, D, IntSpec(RetryDelay), FifoNames[2],
                                   FALSE, 0)
            s3 == run([s2 EXCEPT !.now = now + RetryDelay], D, o)
        IN  /\ s.exc = "none"
            /\ Len(s.fired) >= Len(due)
            /\ \A i \in 1..Len(due) : s.fired[i] = due[i].update_name
            /\ \A i, j \in 1..Len(due) : i < j => due[i].time <= due[j].time
            /\ \A i \in 1..Len(q) :
                   q[i].time > now
                   => /\ InQueue(s.scheduler[D], q[i])
                      /\ q[i].update_name \notin Names(s.fired)
            /\ Position(s3.fired, FifoNames[1]) > 0
            /\ Position(s3.fired, FifoNames[1]) < Position(s3.fired, FifoNames[2])
            /\ \A i \in 1..Len(q) :
                   q[i].time = now + RetryDelay
                   => /\ Position(s3.fired, q[i].update_name) > 0
                      /\ Position(s3.fired, q[i].update_name)
                             < Position(s3.fired, FifoNames[1])

\* one poll has run the callbacks of two updates
C15_Witness ==
    /\ last.op = "poll"
    /\ Cardinality(last.fired) = 2

\* C17: a callback removes the registry entry of its update before the
\* fetch, so that a schedule call made in the callback under the same name
\* registers: after a poll in which "API Retry" fired and the fetch failed
\* again, "API Retry" is pending anew, due 30 seconds later; after a poll
\* in which a repeating update fired, it is pending anew with another
\* event, due later.
C17_FiredEntryRemovedFirst ==
    \A o \in Fetches(client) :
        LET s == run(State, D, o)
            reg == s.scheduled_updates[D]
        IN  /\ (RetryName \in Names(s.fired) /\ FetchFails(D, o))
                   => /\ RetryName \in DOMAIN reg
                      /\ reg[RetryName].event.time = now + RetryDelay
                      /\ InQueue(s.scheduler[D], reg[RetryName].event)
            /\ \A name \in Pending(D) :
                   (name \in Names(s.fired) /\ Entry(name).repeat)
                   => /\ name \in DOMAIN reg
                      /\ reg[name].event # Entry(name).event
                      /\ reg[name].event.time > now
                      /\ InQueue(s.scheduler[D], reg[name].event)

\* a poll has run the callback of "API Retry", whose fetch failed again
C17_Witness ==
    /\ last.op = "poll" /\ last.res = "failed"
    /\ RetryName \in last.fired
    /\ RetryName \in Pending(D)
    /\ Entry(RetryName).event.time = now + RetryDelay

\* the titles of the first n articles of list
FirstTitles(list, n) ==
    [i \in 1..(IF Len(list) < n THEN Len(list) ELSE n) |-> list[i].title]

DisplayFollowsNews(s) ==
    /\ Len(s.formatted_news) <= 5
    /\ FirstTitles(s.formatted_news, Len(s.formatted_news))
           = FirstTitles(s.news, 5)

\* C20: after every update_news call, whether its fetch succeeded or
\* failed, and after every add_removed_article call, for a title that is
\* in the news list or not, formatted_news has at most 5 items, whose
\* titles are those of the first min(5, len(news)) articles of news, in
\* order.
C20_DisplayListFollowsNews ==
    /\ \A o \in Fetches("articles") : DisplayFollowsNews(update_news(State, o))
    /\ \A title \in Titles \cup {"fake_article"} :
           DisplayFollowsNews(add_removed_article(State, title))

\* the values a statistic may have in a record, and the record lists
Figures == {<<>>, <<0>>, <<3>>}

CovidRecords ==
    [new_cases : Figures, hospital_cases : Figures, cum_deaths : Figures]

RecordLists ==
    {<<>>} \cup {<<r>> : r \in CovidRecords}
           \cup {<<r1, r2>> : r1 \in CovidRecords, r2 \in CovidRecords}

RECURSIVE SumPresent(_)
SumPresent(window) ==
    IF window = <<>> THEN 0
    ELSE (IF window[1].new_cases = <<>> THEN 0 ELSE window[1].new_cases[1])
             + SumPresent(Tail(window))

NoFigure(list, field) == \A i \in 1..Len(list) : list[i][field] = <<>>

\* C19: process_covid_csv_data raises for no record list, whichever
\* statistics are empty in whichever records; each of the three results is
\* a number or "N/A", and "N/A" exactly when no record has a value for the
\* statistic; the case total is the sum over the records it spans of the
\* values that are there.
C19_StatisticsNeverRaise ==
    \A list \in RecordLists \cup {Records(covid_data)} :
        LET r == process_covid_csv_data(list)
        IN  /\ r.exc = "none"
            /\ r.cases = NA <=> NoFigure(list, "new_cases")
            /\ r.hospital = NA <=> NoFigure(list, "hospital_cases")
            /\ r.deaths = NA <=> NoFigure(list, "cum_deaths")
            /\ r.cases # NA => r.cases = <<SumPresent(CasesWindow(list))>>

(***************************************************************************)
(* Properties of the dashboard, checked under SpecHome.                    *)
(***************************************************************************)
\* what the merged view may hold before it is rebuilt: nothing, what the
\* last request left, or an entry of a name no registry has
PriorViews ==
    { <<>>, dashboard_updates,
      [name \in {"gone"} |->
          [covid |-> TRUE, news |-> TRUE, time |-> 0, repeat |-> FALSE]] }

RegistryNames(s, d) == DOMAIN s.scheduled_updates[d]

ViewFollowsRegistries(s) ==
    LET view == s.dashboard_updates
    IN  /\ DOMAIN view = RegistryNames(s, "covid") \cup RegistryNames(s, "news")
        /\ \A name \in DOMAIN view :
               /\ view[name].covid <=> name \in RegistryNames(s, "covid")
               /\ view[name].news <=> name \in RegistryNames(s, "news")

\* C12: whatever the merged view held before, after collate_update_lists
\* its keys are the names of the two registries together, the covid flag
\* of a name is true exactly when the data registry has the name and the
\* news flag exactly when the news registry has it; so it is after every
\* request that home() has answered.
C12_MergedViewFollowsRegistries ==
    /\ \A prior \in PriorViews :
           ViewFollowsRegistries(
               collate_update_lists([State EXCEPT !.dashboard_updates = prior]))
    /\ (last.op = "home" /\ last.res = "done") => ViewFollowsRegistries(State)

\* a request has been answered with one name in both registries and
\* another in the data registry only
C12_Witness ==
    /\ last.op = "home" /\ last.res = "done"
    /\ \E name \in DOMAIN dashboard_updates :
           dashboard_updates[name].covid /\ dashboard_updates[name].news
    /\ \E name \in DOMAIN dashboard_updates :
           dashboard_updates[name].covid /\ ~dashboard_updates[name].news

\* the names of the events of domain d that are due when a request comes in
DueNames(d) ==
    {DueAt(scheduler[d], now)[i].update_name :
         i \in 1..Len(DueAt(scheduler[d], now))}

\* C16: in every request both schedulers are polled first: the callback of
\* every event due in either queue has run when home() is left, also that
\* of an update the request itself cancels, and the statistics of the page
\* are those of the snapshots as the poll has left them.
C16_PollBeforeSnapshotsAndIntents ==
    \A req \in Requests, o \in HomeFetches :
        LET polled == PollSchedulers(State, o)
            stats == ReadSnapshots(polled)
            s == home(State, req, o)
        IN  /\ \A d \in Domains : DueNames(d) \subseteq Names(s.fired)
            /\ s.fired = polled.fired
            /\ s.exc = "none" =>
                   /\ s.page.rendered
                   /\ s.page.local = stats.local
                   /\ s.page.national = stats.national
                   /\ s.page.hospital = stats.hospital
                   /\ s.page.deaths = stats.deaths

\* a request has been answered whose poll ran the retry of a failed fetch,
\* and the page shows the figures that retry has fetched
C16_Witness ==
    /\ last.op = "home" /\ last.res = "done"
    /\ RetryName \in last.fired
    /\ page.rendered /\ page.local # NA /\ page.national # NA

\* the names a request may ask to cancel that the merged view does not hold
NotInView == (HomeTitles \cup {RetryName, "unknown"}) \ DOMAIN dashboard_updates

\* C18: a cancel request for a name the merged view does not hold is
\* answered without an exception, and leaves the two registries and the two
\* queues as the poll of the request has left them.
C18_CancelOutsideViewIgnored ==
    \A name \in NotInView, o \in HomeFetches :
        LET polled == PollSchedulers(State, o)
            s == home(State, [NoRequest EXCEPT !.update_item = name], o)
        IN  /\ s.exc = "none"
            /\ s.scheduled_updates = polled.scheduled_updates
            /\ s.scheduler = polled.scheduler


\* the datetimes a callback re-arms the repeating entries of the registry at
RearmSpecs ==
    {DatetimeSpec(RearmTime(Entry(name).update_time)) :
         name \in {n \in Pending(D) : Entry(n).repeat}}

\* C21: for every interval spec that is accepted, the re-arm of a repeating
\* entry included, the delay handed to scheduler.enter is not negative, also
\* when the clock moves on between the comparison of the fire time with the
\* current time and the reading the delay is computed from.
C21_DelayNeverNegative ==
    \A ui \in AnySpecs \cup RearmSpecs, k \in ClockOracles :
        LET p == ParseInterval(D, ui, now, k)
        IN  p.status = "ok" => p.time_to_update >= 0


\* the transport failures of C22
TransportFailures == {"ConnectionError", "Timeout"}

\* the state s has the one-shot retry of domain d pending
RetryPending(s, d) ==
    /\ RetryName \in DOMAIN s.scheduled_updates[d]
    /\ ~s.scheduled_updates[d][RetryName].repeat
    /\ RetryName \notin DOMAIN scheduled_updates[d]
           => s.scheduled_updates[d][RetryName].event.time = now + RetryDelay

\* C22: for a connection error and for a timeout alike, the fetch of the
\* data domain and the fetch of the news domain return to the caller
\* without an exception and leave the one-shot "API Retry", due 30 seconds
\* later, in the registry of their own domain.
C22_SameFailurePolicy ==
    \A failure \in TransportFailures :
        LET c == covid_API_request(State, failure, "none").s
            n == news_API_request(State, [NoFetch EXCEPT !.news = failure]).s
        IN  /\ c.exc = "none" /\ RetryPending(c, "covid")
            /\ n.exc = "none" /\ RetryPending(n, "news")


\* the value of key in the section of the configuration is absent
Absent(config, section, key) ==
    ~config.file \/ ~config[section].present \/ key \notin config[section].keys

\* C23: from the modules as imported, load_config followed by data_init
\* raises nothing, whichever of the four configured values are absent and
\* whether the first fetches succeed or fail with a connection error; an
\* absent area_name makes the local request ask for Exeter, an absent
\* area_type for ltla, and absent covid_terms for the default search terms.
C23_StartUpUsesDefaults ==
    last = NoCall =>
        \A config \in Configs, o \in HomeFetches :
            LET loaded == load_config(config)
            IN  /\ StartUp(State, config, o).exc = "none"
                /\ Absent(config, "covid", "area_name")
                       => LocationUsed(loaded).location = "Exeter"
                /\ Absent(config, "covid", "area_type")
                       => LocationUsed(loaded).location_type = "ltla"
                /\ Absent(config, "news", "covid_terms")
                       => TermsUsed(loaded) = "Covid COVID-19 coronavirus"


\* the names of the repeating entries of the registry of domain d
Repeating(s, d) ==
    {name \in DOMAIN s.scheduled_updates[d] : s.scheduled_updates[d][name].repeat}

ClockTimes ==
    {StartTime + i * ClockStep + j * OneDay : i \in 0..MaxSteps, j \in 0..MaxDays}

RetryTimes == {t + RetryDelay : t \in ClockTimes}

\* the clock can still reach the time t
CanReach(t) ==
    t <= now \/ StepsToday(now) < MaxSteps \/ DaysPassed(now) < MaxDays

\* the retry of a failed fetch is pending, due at t
RetryDueAt(t) ==
    /\ RetryName \in Pending(D)
    /\ Entry(RetryName).event.time = t

\* a poll made at t or later has run the callback of the retry
RetryRunSince(t) ==
    last.op = "poll" /\ RetryName \in last.fired /\ now >= t

QueueMatchesRegistry(s, d) ==
    LET reg == s.scheduled_updates[d]
        q == s.scheduler[d]
    IN  /\ \A name \in DOMAIN reg :
               /\ InQueue(q, reg[name].event)
               /\ reg[name].event.update_name = name
        /\ \A i \in 1..Len(q) :
               /\ q[i].update_name \in DOMAIN reg
               /\ reg[q[i].update_name].event = q[i]
        /\ Len(q) = Cardinality(DOMAIN reg)

\* C26: after any sequence of schedule, cancel and poll calls in a domain,
\* with fetches that succeed or fail and with re-armed updates, the names
\* of the registry and the events of the queue correspond one to one; so no
\* poll has ended in an exception of a callback that missed its entry, and
\* a cancel of any pending name finds its event and removes both.
C26_RegistryMatchesQueue ==
    /\ QueueMatchesRegistry(State, D)
    /\ last.op = "poll" => last.res # "raised"
    /\ \A name \in Pending(D) :
           LET s == cancel_scheduled_update(State, D, name)
           IN  s.exc = "none" /\ QueueMatchesRegistry(s, D)

\* a poll has run a callback that re-armed its update or registered the
\* retry, beside another pending update
C26_Witness ==
    /\ last.op = "poll" /\ last.fired # {}
    /\ Cardinality(Pending(D)) = 2
    /\ Len(scheduler[D]) = 2
    /\ \E name \in last.fired : name \in Pending(D)


\* C27: the event of every registry entry is due at the fire time the
\* entry records as update_time, whatever accepted interval spec the entry
\* was scheduled with, a negative integer included.
C27_DueTimeIsFireTime ==
    \A name \in Pending(D) : Entry(name).event.time = Entry(name).update_time


\* the time specs the form can submit: "12:34", "54:43", "30", "bad"
FormSpecs == {StrSpec(str) : str \in StrSpecs}

\* a schedule request of the form for both feeds
BothFeeds(update) ==
    [NoRequest EXCEPT !.update = update, !.two = "a", !.covid = TRUE,
                      !.news = TRUE]

Registered(s, d, name) == name \in DOMAIN s.scheduled_updates[d]

\* C28: a schedule request to home() for both feeds, for a title that is
\* pending in neither registry, leaves the title in both registries or in
\* neither, for every time spec of the form (HH:MM, digits, malformed).
C28_BothFeedsOrNeither ==
    \A update \in FormSpecs, o \in HomeFetches :
        LET title == Title("a", update)
            after == home(State, BothFeeds(update), o)
        IN  (\A d \in Domains : ~Registered(State, d, title))
                => (Registered(after, "covid", title)
                        <=> Registered(after, "news", title))


\* the schedule requests the page sends
ScheduleRequests == {req \in Requests : req.covid \/ req.news}

\* `if update_title not in scheduled_updates` is false: home() reaches the
\* schedule intent and schedules nothing
RejectedAsDuplicate(s, req) ==
    /\ s.exc = "none"
    /\ req.covid \/ req.news
    /\ Title(req.two, req.update) \in DOMAIN s.dashboard_updates

\* C29: home() rejects a schedule request as a duplicate only if the title
\* is pending in a registry after the request's own poll; a title whose
\* update fired in that poll and was not re-armed is scheduled again.
C29_DuplicateOnlyIfPending ==
    \A req \in ScheduleRequests, o \in HomeFetches :
        LET polled == ReadStep(PollSchedulers(State, o))
        IN  RejectedAsDuplicate(polled, req)
                => \E d \in Domains :
                       Registered(polled, d, Title(req.two, req.update))


\* a cancel request the page sends for an update of the view
CancelRequest(name) == [NoRequest EXCEPT !.update_item = name]

PendingIn(s, d, name) ==
    \/ Registered(s, d, name)
    \/ \E i \in 1..Len(s.scheduler[d]) : s.scheduler[d][i].update_name = name

\* C30: after home() has processed a cancel request for a name of the merged
\* view, the name is in neither registry and in neither queue, whatever the
\* polls at the start of the request did to the registries.
C30_CancelledIsGone ==
    \A name \in DOMAIN dashboard_updates, o \in HomeFetches :
        \A d \in Domains :
            ~PendingIn(home(State, CancelRequest(name), o), d, name)


\* the repeat flag of a name is the same in the two registries
SameRepeat(s, name) ==
    s.scheduled_updates["covid"][name].repeat
        = s.scheduled_updates["news"][name].repeat

\* C31: after any sequence of requests through home(), a name that is in
\* both registries has the same repeat flag in both, so the flag the merged
\* view takes from the covid registry is right for the news registry too.
C31_SameRepeatInBoth ==
    \A name \in Pending("covid") \cap Pending("news") : SameRepeat(State, name)


OtherDomain(d) == IF d = "covid" THEN "news" ELSE "covid"

\* what an operation of domain d must leave as it was: the registry and the
\* queue of the other module and its snapshot, and for a covid operation
\* the removed articles and the displayed articles too
LeavesOtherAlone(d, before, after) ==
    /\ after.scheduled_updates[OtherDomain(d)]
           = before.scheduled_updates[OtherDomain(d)]
    /\ after.scheduler[OtherDomain(d)] = before.scheduler[OtherDomain(d)]
    /\ d = "covid" =>
           /\ after.news = before.news
           /\ after.removed_articles = before.removed_articles
           /\ after.formatted_news = before.formatted_news
    /\ d = "news" =>
           /\ after.covid_data = before.covid_data
           /\ after.national_covid_data = before.national_covid_data

\* the names an operation is called with: those pending and one that is not
FrameNames == Pending("covid") \cup Pending("news") \cup {"unknown"}

\* the states one operation of domain d can take the program to: a schedule
\* call, a cancel call, a poll with its callbacks, a fetch with its retry
OperationsOf(d) ==
    {schedule_updates(State, d, ui, name, repeat, k) :
         ui \in HomeTimes, name \in FrameNames, repeat \in BOOLEAN,
         k \in ClockOracles}
    \cup {cancel_scheduled_update(State, d, name) : name \in FrameNames}
    \cup {run(State, d, o) : o \in HomeFetches}
    \cup (IF d = "covid"
          THEN {covid_API_request(State, o.local, o.payload).s :
                    o \in HomeFetches}
          ELSE {update_news(State, o) : o \in HomeFetches})

\* C32: every operation of one domain (schedule, cancel, poll, firing
\* callback, failed fetch with its retry) leaves the other domain's
\* registry, queue and snapshot unchanged, and a covid operation leaves the
\* removed articles and the displayed articles unchanged too.
C32_OtherDomainUntouched ==
    \A d \in Domains :
        \A after \in OperationsOf(d) : LeavesOtherAlone(d, State, after)

\* both domains hold an update and a snapshot, and a poll of either domain
\* with failing fetches fires a callback that registers the retry
C32_Witness ==
    /\ \A d \in Domains : Pending(d) # {}
    /\ news # <<>> /\ formatted_news # <<>> /\ Truthy(covid_data)
    /\ \A d \in Domains :
           \E o \in HomeFetches :
               /\ run(State, d, o).fired # <<>>
               /\ RetryName \in DOMAIN run(State, d, o).scheduled_updates[d]
               /\ RetryName \notin Pending(d)

=============================================================================
